---- MODULE Spec2Model ----
(***************************************************************************)
(* joi-moment: a Joi extension type "moment".  The repository holds two    *)
(* versions of the extension, src/index.js and src/unnamed/part_000; the   *)
(* variable impl says which of the two is loaded.  A schema (cfg) is       *)
(* evaluated against inputs: coerce, then the type's validate, then the    *)
(* schema's rules.  Moment objects are mutable and are held by reference,  *)
(* so they live in a heap.                                                 *)
(***************************************************************************)
EXTENDS Integers, Sequences, FiniteSets, TLC

\* impl:  which file is loaded, "index" (src/index.js) or "part"
\*        (src/unnamed/part_000)
\* cfg:   the schema: the flags tz, startOf, endOf, minDate, maxDate and the
\*        list of rules; minDate/maxDate name an object of the heap or are "ref"
\* ctx:   what the host supplies: prefs.context.timezone and the values the
\*        references resolve to
\* heap:  the moment objects: "min" and "max" are the ones the schema holds,
\*        "v" is the one being evaluated (the caller's, or coerce's own)
\* built: the moments of minDate/maxDate as they were when the schema was built
\* call:  the last evaluation: its input, the object coerce worked on (work),
\*        that object after timezone/startOf/endOf (norm), the bounds when it
\*        began (pre), and, when the input was the value returned before (fed),
\*        that value (prev) and whether it was a bound (prevClamped)
\* res:   the outcome of the last evaluation: the value, what coerce returned
\*        (coerced), the value's state (snap), the errors, whether validate
\*        threw, and how many rules were run
VARIABLES impl, cfg, ctx, heap, built, call, res

vars == <<impl, cfg, ctx, heap, built, call, res>>

(* ---------------- bounds of the model ---------------- *)
\* instants are 0 .. MaxTime (startOf in a shifted zone may go below 0)
MaxTime == 5
\* number of instants in one calendar day
DayLen == 3
\* longest list of rules of a schema
MaxRules == 2

Times == 0 .. MaxTime

(* ---------------- the moment library, as the extension uses it ---------- *)
Zones == {"local", "A", "B"}

\* offset of a zone's civil time from the instant
Offset(z) == CASE z = "local" -> 0 [] z = "A" -> 1 [] OTHER -> 2

Units == {"milliseconds", "day"}

UnitLen(u) == IF u = "day" THEN DayLen ELSE 1

Moments == [valid : BOOLEAN, t : Int, tz : Zones]

\* moment.invalid() / the result of a failed parse
NoMoment == [valid |-> FALSE, t |-> 0, tz |-> "local"]

Mom(t, z) == [valid |-> TRUE, t |-> t, tz |-> z]

\* m.tz(z): the instant stays, the civil projection changes
Tz(m, z) == IF m.valid THEN [m EXCEPT !.tz = z] ELSE m

\* m.startOf(u), in m's own zone
StartOf(m, u) ==
  IF ~m.valid THEN m
  ELSE [m EXCEPT !.t = ((m.t + Offset(m.tz)) \div UnitLen(u)) * UnitLen(u)
                        - Offset(m.tz)]

\* m.endOf(u), in m's own zone
EndOf(m, u) ==
  IF ~m.valid THEN m
  ELSE [m EXCEPT !.t = ((m.t + Offset(m.tz)) \div UnitLen(u)) * UnitLen(u)
                        + UnitLen(u) - 1 - Offset(m.tz)]

\* a.isBefore(b, u): false when either is invalid; at a unit, the end of a's
\* unit (in a's zone) is before b
IsBefore(a, b, u) ==
  /\ a.valid /\ b.valid
  /\ IF u = "milliseconds" THEN a.t < b.t ELSE EndOf(a, u).t < b.t

IsAfter(a, b, u) ==
  /\ a.valid /\ b.valid
  /\ IF u = "milliseconds" THEN a.t > b.t ELSE b.t < StartOf(a, u).t

IsSame(a, b, u) ==
  /\ a.valid /\ b.valid
  /\ IF u = "milliseconds" THEN a.t = b.t
     ELSE StartOf(a, u).t <= b.t /\ b.t <= EndOf(a, u).t

IsSameOrBefore(a, b, u) == IsSame(a, b, u) \/ IsBefore(a, b, u)

IsSameOrAfter(a, b, u) == IsSame(a, b, u) \/ IsAfter(a, b, u)

(* ---------------- JavaScript values handed to the extension ------------ *)
\* k = "absent": undefined, null or ""  (falsy)
\* k = "str":    a non-empty string; ok says whether it parses as ISO-8601,
\*               t the instant it denotes
\* k = "obj":    a moment object, id its place in the heap
Absent == [k |-> "absent", ok |-> FALSE, t |-> 0, id |-> "none"]

Str(t) == [k |-> "str", ok |-> TRUE, t |-> t, id |-> "none"]

BadStr == [k |-> "str", ok |-> FALSE, t |-> 0, id |-> "none"]

Obj(id) == [k |-> "obj", ok |-> FALSE, t |-> 0, id |-> id]

\* moment(s, moment.ISO_8601) of a string: local zone, or invalid
Parse(s) == IF s.ok THEN Mom(s.t, "local") ELSE NoMoment

\* moment.isMoment(v)
IsMoment(v) == v.k = "obj"

Ids == {"min", "max", "v"}

\* what coerce hands back: ret = "undef" for a bare return, else the id of
\* the object in {value}; work is the object that was normalized, norm its
\* state after timezone/startOf/endOf
NoReturn(h) == [ret |-> "undef", heap |-> h, work |-> "undef", norm |-> NoMoment]

(* ---------------- coerce: the steps both files share ---------------- *)
\* startOf applied before the timezone
NormalizeStartFirst(h, id, tz, startOf, endOf) ==
  LET h2 == IF startOf # "none" THEN [h EXCEPT ![id] = StartOf(@, startOf)] ELSE h
      h3 == IF tz # "none" THEN [h2 EXCEPT ![id] = Tz(@, tz)] ELSE h2
  IN IF endOf # "none" THEN [h3 EXCEPT ![id] = EndOf(@, endOf)] ELSE h3

\* value.tz(tz); value.startOf(startOf); value.endOf(endOf), each when set:
\* the object id is changed in place
Normalize(h, id, tz, startOf, endOf) ==
  LET h2 == IF tz # "none" THEN [h EXCEPT ![id] = Tz(@, tz)] ELSE h
      h3 == IF startOf # "none" THEN [h2 EXCEPT ![id] = StartOf(@, startOf)] ELSE h2
  IN IF endOf # "none" THEN [h3 EXCEPT ![id] = EndOf(@, endOf)] ELSE h3

\* the maximum applied before the minimum
ClampMaxFirst(h, id, minDate, maxDate) ==
  LET v5 == IF maxDate # "none" /\ IsAfter(h[id], h[maxDate], "milliseconds")
            THEN maxDate ELSE id
  IN IF minDate # "none" /\ IsBefore(h[v5], h[minDate], "milliseconds")
     THEN minDate ELSE v5

\* if (min && value.isBefore(min)) value = min;
\* if (max && value.isAfter(max)) value = max;  -- the object that value names
Clamp(h, id, minDate, maxDate) ==
  LET v5 == IF minDate # "none" /\ IsBefore(h[id], h[minDate], "milliseconds")
            THEN minDate ELSE id
  IN IF maxDate # "none" /\ IsAfter(h[v5], h[maxDate], "milliseconds")
     THEN maxDate ELSE v5

(* ---------------- coerce, src/index.js ---------------- *)
CoerceIndex(c, x, h, input) ==
  IF input.k = "absent" THEN NoReturn(h)
  ELSE
    \* moment(value, ISO_8601): parses a string, clones a moment
    LET h1 == [h EXCEPT !["v"] = IF IsMoment(input) THEN h[input.id] ELSE Parse(input)]
    IN IF ~h1["v"].valid THEN NoReturn(h1)
       ELSE
         LET h4 == Normalize(h1, "v", c.tz, c.startOf, c.endOf)
         IN [ret |-> Clamp(h4, "v", c.minDate, c.maxDate),
             heap |-> h4, work |-> "v", norm |-> h4["v"]]

(* ---------------- coerce, src/unnamed/part_000 ---------------- *)
\* ref.resolve(value, state, prefs): what the context holds for the reference
ResolveFlag(flag, resolved) == IF flag = "ref" THEN resolved ELSE flag

CoercePart(c, x, h, input) ==
  IF input.k = "absent" THEN NoReturn(h)
  ELSE
    \* a moment is used as it is, anything else is parsed into a new object
    LET h1 == IF IsMoment(input) THEN h ELSE [h EXCEPT !["v"] = Parse(input)]
        id == IF IsMoment(input) THEN input.id ELSE "v"
    IN IF ~h1[id].valid THEN NoReturn(h1)
       ELSE
         LET minDate == ResolveFlag(c.minDate, x.minRef)
             maxDate == ResolveFlag(c.maxDate, x.maxRef)
             \* the field's timezone, else the context's
             tz == IF c.tz # "none" THEN c.tz ELSE x.timezone
             h4 == Normalize(h1, id, tz, c.startOf, c.endOf)
         IN [ret |-> Clamp(h4, id, minDate, maxDate),
             heap |-> h4, work |-> id, norm |-> h4[id]]

Coerce(i, c, x, h, input) ==
  IF i = "index" THEN CoerceIndex(c, x, h, input) ELSE CoercePart(c, x, h, input)

(* ---------------- the type's validate (the same in both files) --------- *)
\* "pass": nothing is returned, or the falsy value is handed back
\* "iso":  {value, errors: date.iso}
\* "throw": value is a string, value.isValid is not a function (TypeError)
TypeValidate(value, h) ==
  IF value.k = "absent" THEN "pass"
  ELSE IF ~IsMoment(value) THEN "throw"
  ELSE IF ~h[value.id].valid THEN "iso"
  ELSE "pass"

(* ---------------- rules: the date argument ---------------- *)
\* k = "undef" | "null" | "empty" (the string "") | "str" | "moment"
DateUndef == [k |-> "undef", ok |-> FALSE, t |-> 0]

DateNull == [k |-> "null", ok |-> FALSE, t |-> 0]

DateEmpty == [k |-> "empty", ok |-> FALSE, t |-> 0]

DateStr(t) == [k |-> "str", ok |-> TRUE, t |-> t]

DateMom(t) == [k |-> "moment", ok |-> TRUE, t |-> t]

Falsy(d) == d.k \in {"undef", "null", "empty"}

TypeofString(d) == d.k \in {"empty", "str"}

\* the assert of the date argument: which values a rule accepts as its date
DateAssertIndex(d) == TypeofString(d) \/ d.k = "moment"

DateAssertPart(d) == Falsy(d) \/ TypeofString(d) \/ d.k = "moment"

DateAssert(i, d) == IF i = "index" THEN DateAssertIndex(d) ELSE DateAssertPart(d)

\* the date a rule compares with: a string is parsed, a moment is used as is
DateMoment(d) ==
  IF TypeofString(d) THEN (IF d.ok THEN Mom(d.t, "local") ELSE NoMoment)
  ELSE IF d.k = "moment" THEN Mom(d.t, "local")
  ELSE NoMoment

(* ---------------- rules: the configuration methods ---------------- *)
Methods == {"isBefore", "isAfter", "isSameOrBefore", "isSameOrAfter"}

\* method(date, precision) { return this.$_addRule({name, args}) }: the rule
\* is registered under name, and name selects the validate that runs
MethodIndex(m, date, precision) ==
  [method |-> m,
   name |-> CASE m = "isSameOrBefore" -> "isBefore"
              [] m = "isSameOrAfter" -> "isAfter"
              [] OTHER -> m,
   date |-> date, precision |-> precision]

MethodPart(m, date, precision) ==
  [method |-> m, name |-> m, date |-> date, precision |-> precision]

Method(i, m, date, precision) ==
  IF i = "index" THEN MethodIndex(m, date, precision) ELSE MethodPart(m, date, precision)

(* ---------------- rules: validate ---------------- *)
\* value.<name>(date, precision) of the moment library
Compare(name, a, b, u) ==
  CASE name = "isBefore" -> IsBefore(a, b, u)
    [] name = "isAfter" -> IsAfter(a, b, u)
    [] name = "isSameOrBefore" -> IsSameOrBefore(a, b, u)
    [] OTHER -> IsSameOrAfter(a, b, u)

\* helpers.error('moment.<name>', {date, precision})
ErrorKind(name) ==
  CASE name = "isBefore" -> "moment.isBefore"
    [] name = "isAfter" -> "moment.isAfter"
    [] name = "isSameOrBefore" -> "moment.isSameOrBefore"
    [] OTHER -> "moment.isSameOrAfter"

Error(kind, date, precision) == [kind |-> kind, date |-> date, precision |-> precision]

\* a rule's outcome: <<>> when the value is handed back, else <<the error>>
RuleValidateIndex(rule, value, h) ==
  LET precision == IF rule.precision = "none" THEN "milliseconds" ELSE rule.precision
      date == DateMoment(rule.date)
  IN IF ~IsMoment(value) \/ Compare(rule.name, h[value.id], date, precision)
     THEN <<>>
     ELSE <<Error(ErrorKind(rule.name), date, precision)>>

\* isAfter compared as isSameOrAfter
RuleValidatePartSameOrAfter(rule, value, h) ==
  IF Falsy(rule.date) THEN <<>>
  ELSE
    LET precision == IF rule.precision = "none" THEN "milliseconds" ELSE rule.precision
        date == DateMoment(rule.date)
        name == IF rule.name = "isAfter" THEN "isSameOrAfter" ELSE rule.name
    IN IF ~IsMoment(value) \/ Compare(name, h[value.id], date, precision)
       THEN <<>>
       ELSE <<Error(ErrorKind(rule.name), date, precision)>>

RuleValidatePart(rule, value, h) ==
  IF Falsy(rule.date) THEN <<>>
  ELSE
    LET precision == IF rule.precision = "none" THEN "milliseconds" ELSE rule.precision
        date == DateMoment(rule.date)
    IN IF ~IsMoment(value) \/ Compare(rule.name, h[value.id], date, precision)
       THEN <<>>
       ELSE <<Error(ErrorKind(rule.name), date, precision)>>

RuleValidate(i, rule, value, h) ==
  IF i = "index" THEN RuleValidateIndex(rule, value, h) ELSE RuleValidatePart(rule, value, h)

(* ---------------- the host framework's part ---------------- *)
\* the value the framework goes on with: coerce's {value}, or the input
\* itself when coerce returned nothing
HostValue(input, c) == IF c.ret = "undef" THEN input ELSE Obj(c.ret)

\* the rules in the order they were added, up to the first that fails
RECURSIVE RunRules(_, _, _, _, _)
RunRules(i, rules, n, value, h) ==
  IF n > Len(rules) THEN [errors |-> <<>>, ran |-> n - 1]
  ELSE LET e == RuleValidate(i, rules[n], value, h)
       IN IF e # <<>> THEN [errors |-> e, ran |-> n]
          ELSE RunRules(i, rules, n + 1, value, h)

IsoError == Error("date.iso", NoMoment, "none")

(* ---------------- schemas ---------------- *)
Impls == {"index", "part"}

NoCall ==
  [done |-> FALSE, input |-> Absent, fed |-> FALSE, inTz |-> "local",
   work |-> "undef", norm |-> NoMoment, pre |-> [min |-> NoMoment, max |-> NoMoment],
   prev |-> NoMoment, prevClamped |-> FALSE]

NoResult ==
  [value |-> Absent, coerced |-> "undef", snap |-> NoMoment, errors |-> <<>>,
   thrown |-> FALSE, ran |-> 0]

\* minDate(d) / maxDate(d): a moment object, or (part_000) a reference
BoundFlags(i) == IF i = "index" THEN {"none", "obj"} ELSE {"none", "obj", "ref"}

\* every rule the configuration methods can add to a schema of version i
\* the instants used for dates that are configured: the middle of each day
MidDays == {t \in Times : t % DayLen = 1}

RuleDates == {DateUndef, DateNull, DateEmpty}
             \cup {DateStr(t) : t \in MidDays} \cup {DateMom(t) : t \in MidDays}

Precisions == {"none", "day"}

RulesOf(i, dates) ==
  {Method(i, m, d, p) : m \in Methods, d \in {x \in dates : DateAssert(i, x)},
                        p \in Precisions}

\* schemas with one rule, of any date; schemas with more rules, each with the
\* first configured date as a string
RuleLists(i) ==
  [1 .. 1 -> RulesOf(i, RuleDates)]
  \cup UNION {[1 .. n -> RulesOf(i, {DateStr(1)})] : n \in 2 .. MaxRules}

\* the instants of the moments given as minDate/maxDate
BoundTimes == {t \in Times : t % 2 = 1}

\* a schema with timezone, startOf/endOf and minDate/maxDate, and no rules
Init ==
  /\ impl \in Impls
  /\ \E tz \in {"none", "A"}, so \in {"none", "day"}, eo \in {"none", "day"},
        mn \in BoundFlags(impl), mx \in BoundFlags(impl) :
       cfg = [tz |-> tz, startOf |-> so, endOf |-> eo,
              minDate |-> IF mn = "obj" THEN "min" ELSE mn,
              maxDate |-> IF mx = "obj" THEN "max" ELSE mx,
              rules |-> <<>>]
  /\ \E z \in {"none", "B"} :
       ctx \in [timezone : {z},
                minRef : IF cfg.minDate = "ref" THEN {"none", "min"} ELSE {"none"},
                maxRef : IF cfg.maxDate = "ref" THEN {"none", "max"} ELSE {"none"}]
  /\ \E a \in BoundTimes, b \in BoundTimes :
       heap = [id \in Ids |->
                 IF id = "min" /\ ResolveFlag(cfg.minDate, ctx.minRef) = "min"
                 THEN Mom(a, "local")
                 ELSE IF id = "max" /\ ResolveFlag(cfg.maxDate, ctx.maxRef) = "max"
                 THEN Mom(b, "local")
                 ELSE NoMoment]
  /\ built = [min |-> heap["min"], max |-> heap["max"]]
  /\ call = NoCall
  /\ res = NoResult

\* a schema with rules only
InitRules ==
  /\ impl \in Impls
  /\ \E rs \in RuleLists(impl) :
       cfg = [tz |-> "none", startOf |-> "none", endOf |-> "none",
              minDate |-> "none", maxDate |-> "none", rules |-> rs]
  /\ ctx = [timezone |-> "none", minRef |-> "none", maxRef |-> "none"]
  /\ heap = [id \in Ids |-> NoMoment]
  /\ built = [min |-> heap["min"], max |-> heap["max"]]
  /\ call = NoCall
  /\ res = NoResult

(* ---------------- one evaluation of the schema ---------------- *)
\* coerce, then validate, then the rules; h0 is the heap with the caller's
\* object (if any) in it, fed says that the input is the value the previous
\* evaluation returned
Evaluate(input, h0, fed) ==
  \E c \in {Coerce(impl, cfg, ctx, h0, input)} :
  \E value \in {HostValue(input, c)} :
  \E tv \in {TypeValidate(value, c.heap)} :
  \E rr \in {IF tv = "pass" /\ value.k # "absent"
             THEN RunRules(impl, cfg.rules, 1, value, c.heap)
             ELSE [errors |-> <<>>, ran |-> 0]} :
  \* an object nothing refers to any more is dropped
  \E h9 \in {IF value = Obj("v") THEN c.heap ELSE [c.heap EXCEPT !["v"] = NoMoment]} :
     /\ heap' = h9
     /\ res' = [value |-> value,
                coerced |-> c.ret,
                snap |-> IF IsMoment(value) THEN h9[value.id] ELSE NoMoment,
                errors |-> IF tv = "iso" THEN <<IsoError>> ELSE rr.errors,
                thrown |-> (tv = "throw"),
                ran |-> rr.ran]
     /\ call' = [done |-> TRUE, input |-> input, fed |-> fed,
                 inTz |-> IF IsMoment(input) THEN h0[input.id].tz ELSE "local",
                 work |-> c.work, norm |-> c.norm,
                 pre |-> [min |-> h0["min"], max |-> h0["max"]],
                 prev |-> IF fed THEN res.snap ELSE NoMoment,
                 prevClamped |-> fed /\ res.coerced # call.work]
     /\ UNCHANGED <<impl, cfg, ctx, built>>

\* undefined, null or ""
EvaluateAbsent == Evaluate(Absent, heap, FALSE)

\* a non-empty string, ISO-8601 or not
EvaluateString == \E s \in {Str(t) : t \in Times} \cup {BadStr} : Evaluate(s, heap, FALSE)

\* a moment object of the caller's, valid or not
EvaluateMoment ==
  \E m \in {Mom(t, z) : t \in MidDays, z \in Zones} \cup {NoMoment} :
    Evaluate(Obj("v"), [heap EXCEPT !["v"] = m], FALSE)

\* the moment object the previous evaluation returned
EvaluateReturned ==
  /\ IsMoment(res.value)
  /\ Evaluate(res.value, heap, TRUE)

Next == EvaluateAbsent \/ EvaluateString \/ EvaluateMoment \/ EvaluateReturned

Spec == Init /\ [][Next]_vars

SpecRules == InitRules /\ [][Next]_vars

(* ---------------- properties ---------------- *)
\* the last evaluation was of a valid timestamp: coerce normalized it
ValidCall == call.done /\ call.work # "undef"

\* the objects minDate/maxDate resolve to ("none" when unset or unresolved)
MinId == ResolveFlag(cfg.minDate, ctx.minRef)

MaxId == ResolveFlag(cfg.maxDate, ctx.maxRef)

\* the calendar day of instant t, seen in zone z
DayIn(t, z) == (t + Offset(z)) \div DayLen

\* the schema has exactly one rule, added by method m
OneRule(m) == Len(cfg.rules) = 1 /\ cfg.rules[1].method = m

\* the value the rules were run on is a valid moment
ValidValue == call.done /\ IsMoment(res.value) /\ res.snap.valid

\* C1: for every non-empty string that is not ISO-8601, coerce yields an
\* invalid timestamp as the value and validate on it gives exactly one
\* date.iso error (no pass, no other failure).
C1_UnparseableGivesDateIso ==
  (call.done /\ call.input = BadStr)
    => /\ IsMoment(res.value) /\ ~res.snap.valid
       /\ res.errors = <<IsoError>>
       /\ ~res.thrown

\* C2: with minDate = D_min <= D_max = maxDate and a valid input normalized
\* to V, the returned R has D_min <= R <= D_max, and R = V when V is already
\* within the bounds (the bounds taken as they are when coerce is called).
C2_ClampWithinBounds ==
  (ValidCall /\ MinId # "none" /\ MaxId # "none" /\ call.pre.min.t <= call.pre.max.t)
    => /\ call.pre.min.t <= res.snap.t
       /\ res.snap.t <= call.pre.max.t
       /\ (call.pre.min.t <= call.norm.t /\ call.norm.t <= call.pre.max.t)
            => res.snap.t = call.norm.t

\* C3: isSameOrBefore(X, 'day') accepts every valid Y on X's calendar day and
\* rejects every Y on a later day; isSameOrAfter(X, 'day') accepts every Y on
\* X's day and rejects every Y on an earlier day (days seen in Y's zone).
C3_SameDayPrecision ==
  \A m \in {"isSameOrBefore", "isSameOrAfter"} :
    (ValidValue /\ OneRule(m) /\ cfg.rules[1].precision = "day"
       /\ DateMoment(cfg.rules[1].date).valid)
      => LET y == DayIn(res.snap.t, res.snap.tz)
             x == DayIn(DateMoment(cfg.rules[1].date).t, res.snap.tz)
         IN /\ (y = x) => res.errors = <<>>
            /\ (m = "isSameOrBefore" /\ y > x) => res.errors # <<>>
            /\ (m = "isSameOrAfter" /\ y < x) => res.errors # <<>>

\* C4: when a valid timestamp fails the comparison configured through one of
\* the four methods, the error has the kind named after that method and
\* carries the resolved date and the precision used ('milliseconds' when none
\* was configured).
C4_ErrorKindOfMethod ==
  \A m \in Methods :
    (ValidValue /\ OneRule(m) /\ ~Falsy(cfg.rules[1].date))
      => LET p == IF cfg.rules[1].precision = "none" THEN "milliseconds"
                  ELSE cfg.rules[1].precision
             d == DateMoment(cfg.rules[1].date)
         IN ~Compare(m, res.snap, d, p)
              => res.errors = <<Error(ErrorKind(m), d, p)>>

\* the precision a rule compares at
PrecisionOf(rule) == IF rule.precision = "none" THEN "milliseconds" ELSE rule.precision

\* every rule of the schema has a date that is a valid timestamp
DatedRules == \A n \in 1 .. Len(cfg.rules) : DateMoment(cfg.rules[n].date).valid

\* the rules whose comparison does not hold of the value the rules were run on
Failing ==
  {n \in 1 .. Len(cfg.rules) :
     ~Compare(cfg.rules[n].name, res.snap, DateMoment(cfg.rules[n].date),
              PrecisionOf(cfg.rules[n]))}

C6_AbsentDatePasses ==
  (call.done /\ Len(cfg.rules) = 1 /\ Falsy(cfg.rules[1].date))
    => \A n \in 1 .. Len(res.errors) : res.errors[n].kind = "date.iso"

\* C7: the timezone applied to a valid timestamp is the per-field one when
\* configured, else the context's default when there is one, else the
\* timestamp keeps its own.
C7_TimezoneChoice ==
  ValidCall
    => call.norm.tz = IF cfg.tz # "none" THEN cfg.tz
                      ELSE IF ctx.timezone # "none" THEN ctx.timezone
                      ELSE call.inTz

\* C8: no evaluation changes the configuration: the moments held as
\* minDate/maxDate stay what they were when the schema was built.
C8_ConfigUnchanged ==
  /\ heap["min"] = built.min
  /\ heap["max"] = built.max

C10_Idempotent ==
  (call.fed /\ call.prev.valid) => res.snap.t = call.prev.t

\* C10, amended: coerce of the value a coerce returned gives an equal value
\* whenever that first coerce returned the normalized input itself, not
\* minDate or maxDate in its place.
C10_IdempotentUnclamped ==
  (call.fed /\ call.prev.valid /\ ~call.prevClamped) => res.snap = call.prev

\* a returned value that timezone and startOf had changed is fed back
C10_Witness ==
  /\ call.fed /\ call.prev.valid /\ ~call.prevClamped
  /\ cfg.startOf # "none" /\ cfg.tz # "none"
  /\ res.coerced = "v"
  /\ res.snap = call.prev

====
